---- MODULE Spec2Model ----
(***************************************************************************)
(* Node Configuration Query Client of the Laval frontend                   *)
(* (packages/frontend/src/App.tsx, lib/rpc).                               *)
(*                                                                         *)
(* The component state (useState cells), the async handler handleSubmit    *)
(* split at its single await, and the notifications it raises.             *)
(*                                                                         *)
(* Strings the handler trims are sequences of characters; an optional      *)
(* value (string | null, T | undefined) is a sequence of length 0 or 1.    *)
(* The Chinese UI texts are written here in ASCII transliteration.         *)
(***************************************************************************)
EXTENDS Integers, Sequences, FiniteSets, TLC

\* ---------------------------------------------------------------- bounds
MaxLen == 3        \* longest node name typed into the input
MaxSubmits == 3    \* number of form submissions explored
MaxJsonLen == 9    \* longest well-formed configJson text, in tokens
MaxRawLen == 3     \* longest arbitrary configJson text, in tokens

\* ------------------------------------------------------------ characters
\* String.prototype.trim strips white space and line terminators; the
\* space stands for them, "e" for every other character.
WhiteSpace == {" "}
Chars == WhiteSpace \cup {"e"}

RECURSIVE SeqsUpTo(_, _)
SeqsUpTo(S, n) ==
    IF n = 0 THEN {<<>>}
    ELSE LET shorter == SeqsUpTo(S, n - 1)
         IN  shorter \cup {Append(s, c) : s \in {t \in shorter : Len(t) = n - 1}, c \in S}

\* values the Input's onChange can hand to setNodeName
Inputs == SeqsUpTo(Chars, MaxLen)

\* ------------------------------------------------------- String.trim
RECURSIVE TrimStart(_)
TrimStart(s) ==
    IF s = <<>> THEN <<>>
    ELSE IF Head(s) \in WhiteSpace THEN TrimStart(Tail(s)) ELSE s

RECURSIVE TrimEnd(_)
TrimEnd(s) ==
    IF s = <<>> THEN <<>>
    ELSE IF s[Len(s)] \in WhiteSpace THEN TrimEnd(SubSeq(s, 1, Len(s) - 1)) ELSE s

Trim_None(s) == s

Trim_StartOnly(s) == TrimStart(s)

Trim(s) == TrimEnd(TrimStart(s))

\* ------------------------------------------------------------- options
Null == <<>>
Some(v) == <<v>>

\* ------------------------------------------------------- fixed messages
VALIDATION_MESSAGE == "qing shuru jiedian mingcheng"
FALLBACK_MESSAGE == "wufa huoqu jiedian peizhi"
LOADED_TEXT == "yi jiazai jiedian {name} de peizhi"
NO_PORT_MAPPING_TEXT == "gai jiedian meiyou peizhi duankou yingshe"

\* ------------------------------------------------------------------ JSON
\* configJson and the displayed text are sequences of lexical tokens: the
\* punctuation of JSON, string literals, number literals, null, and white
\* space.  "1e999" is a number literal beyond the range of a double.
StringTokens == {"\"a\"", "\"b\""}
NumberTokens == {"1", "1e999"}
JsonWhiteSpace == {" ", "\n"}
RawTokens == {"{", "}", "[", "]", ":", ",", "\"a\"", "1", "1e999", " "}

\* a parsed value
JVal(kind, lit, keys, items) ==
    [kind |-> kind, lit |-> lit, keys |-> keys, items |-> items]

\* the Number a number literal denotes: JSON.parse rounds to the nearest
\* double, and a literal beyond Number.MAX_VALUE becomes Infinity
NumberValue(tok) == IF tok = "1e999" THEN "Infinity" ELSE tok

ParseOk(val, pos) == [ok |-> TRUE, val |-> val, pos |-> pos]
ParseFail == [ok |-> FALSE, val |-> JVal("none", "", <<>>, <<>>), pos |-> 0]

RECURSIVE SkipWs(_, _)
SkipWs(s, i) ==
    IF i <= Len(s) /\ s[i] \in JsonWhiteSpace THEN SkipWs(s, i + 1) ELSE i

\* an object keeps one property per key, in order of first insertion; a
\* repeated key overwrites the value
PutMember(obj, key, val) ==
    IF \E p \in 1 .. Len(obj.keys) : obj.keys[p] = key
    THEN LET p == CHOOSE q \in 1 .. Len(obj.keys) : obj.keys[q] = key
         IN  [obj EXCEPT !.items[p] = val]
    ELSE [obj EXCEPT !.keys = Append(@, key), !.items = Append(@, val)]

RECURSIVE ParseValue(_, _)
RECURSIVE ParseElements(_, _, _)
RECURSIVE ParseMembers(_, _, _)

\* the elements of an array from position i on, up to the closing bracket
ParseElements(s, i, acc) ==
    LET r == ParseValue(s, i)
        j == SkipWs(s, r.pos)
    IN  IF ~r.ok \/ j > Len(s) THEN ParseFail
        ELSE LET arr == [acc EXCEPT !.items = Append(@, r.val)]
             IN  IF s[j] = "," THEN ParseElements(s, SkipWs(s, j + 1), arr)
                 ELSE IF s[j] = "]" THEN ParseOk(arr, j + 1)
                 ELSE ParseFail

\* the members of an object from position i on, up to the closing brace
ParseMembers(s, i, acc) ==
    IF i > Len(s) \/ s[i] \notin StringTokens THEN ParseFail
    ELSE LET c == SkipWs(s, i + 1)
         IN  IF c > Len(s) \/ s[c] # ":" THEN ParseFail
             ELSE LET r == ParseValue(s, SkipWs(s, c + 1))
                      j == SkipWs(s, r.pos)
                  IN  IF ~r.ok \/ j > Len(s) THEN ParseFail
                      ELSE LET obj == PutMember(acc, s[i], r.val)
                           IN  IF s[j] = "," THEN ParseMembers(s, SkipWs(s, j + 1), obj)
                               ELSE IF s[j] = "}" THEN ParseOk(obj, j + 1)
                               ELSE ParseFail

\* the value that starts at position i (white space already skipped)
ParseValue(s, i) ==
    IF i > Len(s) THEN ParseFail
    ELSE IF s[i] \in StringTokens THEN ParseOk(JVal("string", s[i], <<>>, <<>>), i + 1)
    ELSE IF s[i] \in NumberTokens
         THEN ParseOk(JVal("number", NumberValue(s[i]), <<>>, <<>>), i + 1)
    ELSE IF s[i] = "null" THEN ParseOk(JVal("null", "null", <<>>, <<>>), i + 1)
    ELSE IF s[i] = "["
         THEN LET j == SkipWs(s, i + 1)
              IN  IF j <= Len(s) /\ s[j] = "]"
                  THEN ParseOk(JVal("array", "", <<>>, <<>>), j + 1)
                  ELSE ParseElements(s, j, JVal("array", "", <<>>, <<>>))
    ELSE IF s[i] = "{"
         THEN LET j == SkipWs(s, i + 1)
              IN  IF j <= Len(s) /\ s[j] = "}"
                  THEN ParseOk(JVal("object", "", <<>>, <<>>), j + 1)
                  ELSE ParseMembers(s, j, JVal("object", "", <<>>, <<>>))
    ELSE ParseFail

\* JSON.parse(text): ok is FALSE where it throws a SyntaxError
JsonParse(s) ==
    LET r == ParseValue(s, SkipWs(s, 1))
    IN  IF r.ok /\ SkipWs(s, r.pos) = Len(s) + 1 THEN r ELSE ParseFail

RECURSIVE Indent(_)
Indent(depth) == IF depth = 0 THEN <<>> ELSE <<" ", " ">> \o Indent(depth - 1)

RECURSIVE Serialize(_, _)
RECURSIVE SerializeItems(_, _, _)

\* the lines of a non-empty array or object from item p on
SerializeItems(v, p, depth) ==
    Indent(depth)
    \o (IF v.kind = "object" THEN <<v.keys[p], ":", " ">> ELSE <<>>)
    \o Serialize(v.items[p], depth)
    \o (IF p < Len(v.items)
        THEN <<",", "\n">> \o SerializeItems(v, p + 1, depth)
        ELSE <<"\n">>)

\* JSON.stringify(value, null, 2) at a nesting depth; a number that is not
\* finite is written as null
Serialize(v, depth) ==
    IF v.kind = "number" THEN (IF v.lit = "Infinity" THEN <<"null">> ELSE <<v.lit>>)
    ELSE IF v.kind \in {"string", "null"} THEN <<v.lit>>
    ELSE LET open == IF v.kind = "array" THEN "[" ELSE "{"
             close == IF v.kind = "array" THEN "]" ELSE "}"
         IN  IF v.items = <<>> THEN <<open, close>>
             ELSE <<open, "\n">> \o SerializeItems(v, 1, depth + 1)
                  \o Indent(depth) \o <<close>>

JsonStringify(v) == Serialize(v, 0)

\* the well-formed JSON texts of exactly n tokens without white space
\* (values, comma-separated element lists, member lists), given the table
\* t of the shorter ones: t[k + 1] holds those of k tokens
WellFormedOfLen(t, n) ==
    LET Scalars == {<<tok>> : tok \in StringTokens \cup NumberTokens \cup {"null"}}
        values ==
            IF n = 1 THEN Scalars
            ELSE IF n = 2 THEN {<<"[", "]">>, <<"{", "}">>}
            ELSE IF n >= 3
                 THEN {<<"[">> \o l \o <<"]">> : l \in t[n - 1].elements}
                      \cup {<<"{">> \o m \o <<"}">> : m \in t[n - 1].members}
            ELSE {}
        elements ==
            values \cup
            UNION {{v \o <<",">> \o l : v \in t[k + 1].values, l \in t[n - k].elements}
                   : k \in 1 .. n - 2}
        members ==
            (IF n >= 3
             THEN {<<key, ":">> \o v : key \in StringTokens, v \in t[n - 1].values}
             ELSE {})
            \cup
            UNION {{<<key, ":">> \o v \o <<",">> \o m :
                        key \in StringTokens, v \in t[k + 1].values, m \in t[n - 2 - k].members}
                   : k \in 1 .. n - 6}
    IN  [values |-> values, elements |-> elements, members |-> members]

RECURSIVE WellFormedTable(_)
WellFormedTable(n) ==
    IF n = 0 THEN <<WellFormedOfLen(<<>>, 0)>>
    ELSE LET t == WellFormedTable(n - 1)
         IN  Append(t, WellFormedOfLen(t, n))

\* the configJson texts a server can send: the well-formed ones up to
\* MaxJsonLen tokens and every token sequence up to MaxRawLen
ConfigTexts ==
    LET t == WellFormedTable(MaxJsonLen)
    IN  UNION {t[n + 1].values : n \in 1 .. MaxJsonLen}
        \cup SeqsUpTo(RawTokens, MaxRawLen)

\* ------------------------------------------------- payload interpretation
EMPTY_PLACEHOLDER == "(kong peizhi)"

Details(hasConfig, isJson, pretty) ==
    [hasConfig |-> hasConfig, isJson |-> isJson, pretty |-> pretty]

\* useMemo(() => ..., [portMapping]) over the optional portMapping
portMappingDetails_NoEmptyCase(portMapping) ==
    IF portMapping = Null THEN Details(FALSE, TRUE, <<>>)
    ELSE LET configJson == portMapping[1].configJson
             parsed == JsonParse(configJson)
         IN  IF parsed.ok
             THEN Details(TRUE, TRUE, JsonStringify(parsed.val))
             ELSE Details(TRUE, FALSE, configJson)

portMappingDetails_DropsRawText(portMapping) ==
    IF portMapping = Null THEN Details(FALSE, TRUE, <<>>)
    ELSE LET configJson == portMapping[1].configJson
             parsed == JsonParse(configJson)
         IN  IF configJson = <<>> THEN Details(TRUE, TRUE, <<EMPTY_PLACEHOLDER>>)
             ELSE IF parsed.ok
             THEN Details(TRUE, TRUE, JsonStringify(parsed.val))
             ELSE Details(TRUE, FALSE, <<EMPTY_PLACEHOLDER>>)

portMappingDetails(portMapping) ==
    IF portMapping = Null THEN Details(FALSE, TRUE, <<>>)
    ELSE LET configJson == portMapping[1].configJson
             parsed == JsonParse(configJson)
         IN  IF configJson = <<>> THEN Details(TRUE, TRUE, <<EMPTY_PLACEHOLDER>>)
             ELSE IF parsed.ok
             THEN Details(TRUE, TRUE, JsonStringify(parsed.val))
             ELSE Details(TRUE, FALSE, configJson)

\* PortMappingMode and the values of the enum this build does not know
PortMappingMode == {"UNSPECIFIED", "SERVER", "CLIENT"}
UnrecognizedModes == {"3", "-1"}

MODE_LABELS ==
    [UNSPECIFIED |-> "Unspecified", SERVER |-> "Server", CLIENT |-> "Client"]

\* MODE_LABELS[mode] ?? 'Unknown'
getModeLabel_NoFallback(mode) ==
    IF mode \in DOMAIN MODE_LABELS THEN MODE_LABELS[mode] ELSE "undefined"

getModeLabel(mode) ==
    IF mode \in DOMAIN MODE_LABELS THEN MODE_LABELS[mode] ELSE "Unknown"

\* response?.portMapping
PortMappingOf(resp) == IF resp = Null THEN Null ELSE resp[1].portMapping

\* what the result card shows for a response: the memoised details and,
\* when there is a port mapping, the label of its mode
View(resp) ==
    [details |-> portMappingDetails(PortMappingOf(resp)),
     modeLabel |-> IF PortMappingOf(resp) = Null THEN Null
                   ELSE Some(getModeLabel(PortMappingOf(resp)[1].mode))]

\* ------------------------------------------------ what the server can do
\* GetNodeConfigResponse: name (server-echoed, may be empty) and an
\* optional portMapping {mode, configJson}.
PortMappings ==
    { [mode |-> "SERVER", configJson |-> <<"{", "\"a\"", ":", "1", "}">>] }

Responses ==
    [name : {<<>>, <<"e">>}, portMapping : {Null} \cup {Some(p) : p \in PortMappings}]

\* What the awaited promise can reject with.  A ConnectError is an Error
\* too (class ConnectError extends Error): it carries the server text in
\* rawMessage and "[code] text" in message.  Any other Error carries
\* message only; anything else thrown (a string, an object) has neither.
Fault(classes, rawMessage, message) ==
    [instanceOf |-> classes, rawMessage |-> rawMessage, message |-> message]

NotFound ==
    Fault({"ConnectError", "Error"}, "node not found", "[not_found] node not found")

Faults ==
    { NotFound,
      Fault({"ConnectError", "Error"}, "", "[unknown]"),
      Fault({"Error"}, "undefined", "Failed to fetch"),
      Fault({"Error"}, "undefined", ""),
      Fault({}, "undefined", "undefined") }

\* ----------------------------------------------------------------- state
VARIABLES
    nodeName,      \* useState('')
    loading,       \* useState(false)
    errorMessage,  \* useState<string | null>(null)
    response,      \* useState<GetNodeConfigResponse | null>(null)
    inflight,      \* handleSubmit invocations suspended at the await
    submissions,   \* number of submit events delivered so far
    calls,         \* calls[id]: getNodeConfig invocations made by submission id
    outcome,       \* outcome[id]: how submission id ended ("pending" until then)
    resumed,       \* resumed[id]: times the handler resumed after its await
    toasts,        \* notifications raised by the latest handler step
    last,          \* the latest handler step: its kind, submission and settlement
    view,          \* what the result card renders from response
    env,           \* import.meta.env.VITE_MANAGER_GRPC_URL, if set
    transport      \* the transport lib/rpc created at module load

vars == <<nodeName, loading, errorMessage, response, inflight, submissions,
          calls, outcome, resumed, toasts, last, view, env, transport>>

Ids == 1 .. MaxSubmits

Step(kind, id, err, result) ==
    [kind |-> kind, id |-> id, err |-> err, result |-> result]

\* --------------------------------------------------- transport binding
DEFAULT_BASE_URL == "http://localhost:50051"
OVERRIDE_URL == "https://manager.example"

\* import.meta.env.VITE_MANAGER_GRPC_URL ?? DEFAULT_BASE_URL
MANAGER_GRPC_BASE_URL_IgnoresEnv(e) == DEFAULT_BASE_URL

MANAGER_GRPC_BASE_URL(e) == IF e # Null THEN e[1] ELSE DEFAULT_BASE_URL

\* createGrpcWebTransport({ baseUrl })
createGrpcWebTransport(baseUrl) == [baseUrl |-> baseUrl]

\* every state update re-renders the result card, and useMemo recomputes
\* the details when portMapping has changed; nothing rebinds the transport
Rerender ==
    /\ view' = IF PortMappingOf(response') = PortMappingOf(response)
               THEN view
               ELSE Some(View(response'))
    /\ UNCHANGED <<env, transport>>

Toast(level, text, name) == [level |-> level, text |-> text, name |-> name]

Init ==
    /\ nodeName = <<>>
    /\ loading = FALSE
    /\ errorMessage = Null
    /\ response = Null
    /\ inflight = {}
    /\ submissions = 0
    /\ calls = [i \in Ids |-> 0]
    /\ outcome = [i \in Ids |-> "none"]
    /\ resumed = [i \in Ids |-> 0]
    /\ toasts = <<>>
    /\ last = Step("init", 0, Null, Null)
    /\ view = Some(View(Null))
    /\ env \in {Null, Some(OVERRIDE_URL)}
    /\ transport = createGrpcWebTransport(MANAGER_GRPC_BASE_URL(env))

\* ------------------------------------------------------------- the form
\* <Input onChange={(event) => setNodeName(event.target.value)} />
SetNodeName(s) ==
    /\ s # nodeName
    /\ nodeName' = s
    /\ UNCHANGED <<loading, errorMessage, response, inflight, submissions,
                   calls, outcome, resumed, toasts, last>>
    /\ Rerender

\* <Button type="submit" disabled={loading}>: a disabled default button
\* blocks both the click and the implicit (Enter key) submission.
SubmitDisabled_Never == FALSE

SubmitDisabled == loading

\* handleSubmit, the validation failure branch
RejectLocally_KeepsResponse(id) ==
    /\ errorMessage' = Some(VALIDATION_MESSAGE)
    /\ toasts' = <<Toast("error", VALIDATION_MESSAGE, <<>>)>>
    /\ outcome' = [outcome EXCEPT ![id] = "rejected"]
    /\ last' = Step("reject", id, Null, Null)
    /\ UNCHANGED <<nodeName, loading, response, inflight, calls, resumed>>

RejectLocally(id) ==
    /\ errorMessage' = Some(VALIDATION_MESSAGE)
    /\ response' = Null
    /\ toasts' = <<Toast("error", VALIDATION_MESSAGE, <<>>)>>
    /\ outcome' = [outcome EXCEPT ![id] = "rejected"]
    /\ last' = Step("reject", id, Null, Null)
    /\ UNCHANGED <<nodeName, loading, inflight, calls, resumed>>

\* a suspended handleSubmit: the request it sent and the trimmed name
\* its continuation still uses
Call(id, trimmed) ==
    [id |-> id, request |-> [name |-> trimmed], trimmed |-> trimmed,
     baseUrl |-> transport.baseUrl]

\* handleSubmit, from setLoading(true) to the await of getNodeConfig
Dispatch_KeepsError(id, trimmed) ==
    /\ loading' = TRUE
    /\ inflight' = inflight \cup {Call(id, trimmed)}
    /\ calls' = [calls EXCEPT ![id] = @ + 1]
    /\ outcome' = [outcome EXCEPT ![id] = "pending"]
    /\ toasts' = <<>>
    /\ last' = Step("dispatch", id, Null, Null)
    /\ UNCHANGED <<nodeName, errorMessage, response, resumed>>

Dispatch_NoLoading(id, trimmed) ==
    /\ errorMessage' = Null
    /\ inflight' = inflight \cup {Call(id, trimmed)}
    /\ calls' = [calls EXCEPT ![id] = @ + 1]
    /\ outcome' = [outcome EXCEPT ![id] = "pending"]
    /\ toasts' = <<>>
    /\ last' = Step("dispatch", id, Null, Null)
    /\ UNCHANGED <<nodeName, loading, response, resumed>>

Dispatch_ClearsResponse(id, trimmed) ==
    /\ loading' = TRUE
    /\ errorMessage' = Null
    /\ inflight' = inflight \cup {Call(id, trimmed)}
    /\ calls' = [calls EXCEPT ![id] = @ + 1]
    /\ outcome' = [outcome EXCEPT ![id] = "pending"]
    /\ toasts' = <<>>
    /\ last' = Step("dispatch", id, Null, Null)
    /\ response' = Null
    /\ UNCHANGED <<nodeName, resumed>>

Dispatch(id, trimmed) ==
    /\ loading' = TRUE
    /\ errorMessage' = Null
    /\ inflight' = inflight \cup {Call(id, trimmed)}
    /\ calls' = [calls EXCEPT ![id] = @ + 1]
    /\ outcome' = [outcome EXCEPT ![id] = "pending"]
    /\ toasts' = <<>>
    /\ last' = Step("dispatch", id, Null, Null)
    /\ UNCHANGED <<nodeName, response, resumed>>

\* handleSubmit up to its first suspension or return
Submit ==
    /\ ~SubmitDisabled
    /\ submissions < MaxSubmits
    /\ submissions' = submissions + 1
    /\ LET id == submissions + 1
           trimmed == Trim(nodeName)
       IN  IF trimmed = <<>>
           THEN RejectLocally(id)
           ELSE Dispatch(id, trimmed)
    /\ Rerender

\* ------------------------------------------------ the promise settles
\* result.name || trimmed
DisplayName(result, trimmed) ==
    IF result.name # <<>> THEN result.name ELSE trimmed

\* toast.success(...) and, without a portMapping, toast.info(...)
SuccessToasts_Silent(result, trimmed) == <<>>

SuccessToasts_NoInfo(result, trimmed) ==
    <<Toast("success", LOADED_TEXT, DisplayName(result, trimmed))>>

SuccessToasts(result, trimmed) ==
    <<Toast("success", LOADED_TEXT, DisplayName(result, trimmed))>>
    \o (IF result.portMapping = Null
        THEN <<Toast("info", NO_PORT_MAPPING_TEXT, <<>>)>>
        ELSE <<>>)

\* the try block after the await
Try_Merges(result, trimmed) ==
    /\ response' = Some(IF response # Null /\ result.portMapping = Null
                        THEN [result EXCEPT !.portMapping = response[1].portMapping]
                        ELSE result)
    /\ toasts' = SuccessToasts(result, trimmed)
    /\ UNCHANGED errorMessage

Try(result, trimmed) ==
    /\ response' = Some(result)
    /\ toasts' = SuccessToasts(result, trimmed)
    /\ UNCHANGED errorMessage

\* the catch block's choice of message
FaultMessage_ErrorFirst(err) ==
    IF "Error" \in err.instanceOf THEN err.message
    ELSE IF "ConnectError" \in err.instanceOf THEN err.rawMessage
    ELSE FALLBACK_MESSAGE

FaultMessage(err) ==
    IF "ConnectError" \in err.instanceOf THEN err.rawMessage
    ELSE IF "Error" \in err.instanceOf THEN err.message
    ELSE FALLBACK_MESSAGE

\* the catch block
Catch_KeepsResponse(err) ==
    /\ errorMessage' = Some(FaultMessage(err))
    /\ toasts' = <<Toast("error", FaultMessage(err), <<>>)>>
    /\ UNCHANGED response

Catch(err) ==
    /\ errorMessage' = Some(FaultMessage(err))
    /\ response' = Null
    /\ toasts' = <<Toast("error", FaultMessage(err), <<>>)>>

\* the finally block
Finally_Skipped == UNCHANGED loading

Finally == loading' = FALSE

\* the awaited promise fulfils: try, then finally
Resolve(h, result) ==
    /\ h \in inflight
    /\ inflight' = inflight \ {h}
    /\ Try(result, h.trimmed)
    /\ Finally
    /\ outcome' = [outcome EXCEPT ![h.id] =
                      IF result.portMapping = Null THEN "empty" ELSE "success"]
    /\ resumed' = [resumed EXCEPT ![h.id] = @ + 1]
    /\ last' = Step("resolve", h.id, Null, Some(result))
    /\ UNCHANGED <<nodeName, submissions, calls>>
    /\ Rerender

\* the awaited promise rejects: catch, then finally
Reject_Retries(h, err) ==
    /\ h \in inflight
    /\ IF calls[h.id] < 2
       THEN /\ calls' = [calls EXCEPT ![h.id] = @ + 1]
            /\ resumed' = [resumed EXCEPT ![h.id] = @ + 1]
            /\ last' = Step("dispatch", h.id, Null, Null)
            /\ UNCHANGED <<inflight, errorMessage, response, toasts, loading, outcome>>
       ELSE /\ inflight' = inflight \ {h}
            /\ Catch(err)
            /\ Finally
            /\ outcome' = [outcome EXCEPT ![h.id] = "failure"]
            /\ resumed' = [resumed EXCEPT ![h.id] = @ + 1]
            /\ last' = Step("fail", h.id, Some(err), Null)
            /\ UNCHANGED calls
    /\ UNCHANGED <<nodeName, submissions>>
    /\ Rerender

Reject(h, err) ==
    /\ h \in inflight
    /\ inflight' = inflight \ {h}
    /\ Catch(err)
    /\ Finally
    /\ outcome' = [outcome EXCEPT ![h.id] = "failure"]
    /\ resumed' = [resumed EXCEPT ![h.id] = @ + 1]
    /\ last' = Step("fail", h.id, Some(err), Null)
    /\ UNCHANGED <<nodeName, submissions, calls>>
    /\ Rerender

\* the transport settles an outstanding call
Settle ==
    \/ \E h \in inflight : \E r \in Responses : Resolve(h, r)
    \/ \E h \in inflight : \E e \in Faults : Reject(h, e)

Next ==
    \/ \E s \in Inputs : SetNodeName(s)
    \/ Submit
    \/ \E h \in inflight : \E r \in Responses : Resolve(h, r)
    \/ \E h \in inflight : \E e \in Faults : Reject(h, e)

Spec == Init /\ [][Next]_vars

\* every call the transport took on settles: it fulfils or rejects; the
\* runs start with the base URL left at its default
FairInit == Init /\ env = Null

FairSpec == FairInit /\ [][Next]_vars /\ WF_vars(Settle)

\* ------------------------------------------------- the result card alone
\* The payload interpretation as a function of the response: any response
\* the server can send is in place and the card is rendered from it once.
RenderPortMappings ==
    {[mode |-> m, configJson |-> c] :
        m \in PortMappingMode \cup UnrecognizedModes, c \in {<<>>, <<"1">>}}
    \cup {[mode |-> "CLIENT", configJson |-> c] : c \in ConfigTexts}

RenderResponses ==
    [name : {<<"e">>}, portMapping : {Null} \cup {Some(p) : p \in RenderPortMappings}]

RenderInit ==
    /\ nodeName = <<>>
    /\ loading = FALSE
    /\ errorMessage = Null
    /\ response \in {Null} \cup {Some(r) : r \in RenderResponses}
    /\ inflight = {}
    /\ submissions = 0
    /\ calls = [i \in Ids |-> 0]
    /\ outcome = [i \in Ids |-> "none"]
    /\ resumed = [i \in Ids |-> 0]
    /\ toasts = <<>>
    /\ last = Step("init", 0, Null, Null)
    /\ view = Null
    /\ env = Null
    /\ transport = createGrpcWebTransport(MANAGER_GRPC_BASE_URL(env))

Render ==
    /\ view = Null
    /\ view' = Some(View(response))
    /\ UNCHANGED <<nodeName, loading, errorMessage, response, inflight, submissions,
                   calls, outcome, resumed, toasts, last, env, transport>>

RenderNext == Render

RenderSpec == RenderInit /\ [][RenderNext]_vars

\* ------------------------------------------------------------ properties
\* <Alert variant="destructive"> is rendered when errorMessage is truthy
AlertRendered == errorMessage # Null /\ errorMessage[1] # ""

AllWhiteSpace(s) == \A i \in 1 .. Len(s) : s[i] \in WhiteSpace

\* t is s without its leading and trailing white space
IsTrimOf(t, s) ==
    \E i, j \in 1 .. Len(s) :
        /\ i <= j
        /\ t = SubSeq(s, i, j)
        /\ s[i] \notin WhiteSpace
        /\ s[j] \notin WhiteSpace
        /\ \A k \in 1 .. Len(s) : (k < i \/ k > j) => s[k] \in WhiteSpace

\* a step that delivers a submit event to handleSubmit
Submitted == submissions' = submissions + 1

Terminal == {"rejected", "success", "empty", "failure"}

\* C1: a submission whose input is empty or all white space is rejected
\* locally: that step makes no getNodeConfig call, whatever the state.
C1_BlankInputNeverCalls ==
    [][(Submitted /\ AllWhiteSpace(nodeName)) =>
          /\ calls' = calls
          /\ inflight' = inflight
          /\ outcome'[submissions'] = "rejected"]_vars

C1_Witness ==
    /\ last.kind = "reject"
    /\ last.id >= 2
    /\ Len(nodeName) >= 2
    /\ AllWhiteSpace(nodeName)
    /\ calls[last.id] = 0

\* C2: at most one getNodeConfig call is outstanding at any moment.
C2_AtMostOneOutstanding == Cardinality(inflight) <= 1

C2_Witness ==
    /\ Cardinality(inflight) = 1
    /\ submissions >= 2
    /\ \E h \in inflight : h.id = submissions

\* C3: after a failed call response is null and errorMessage is the one
\* message taken from the fault, the same one the notification carries;
\* for the structured error "node not found" it is exactly that text.
C3_FailureClearsResult ==
    last.kind = "fail" =>
        /\ response = Null
        /\ errorMessage = Some(FaultMessage(last.err[1]))
        /\ Len(toasts) = 1
        /\ errorMessage = Some(toasts[1].text)
        /\ (last.err[1] = NotFound => errorMessage = Some("node not found"))

C3_Witness ==
    /\ last.kind = "fail"
    /\ last.err = Some(NotFound)
    /\ \E i \in Ids : i < last.id /\ outcome[i] = "success"
    /\ response = Null
    /\ errorMessage = Some("node not found")

\* C4: loading is true whenever a call is outstanding, the step in which a
\* call settles (fulfilled or rejected) clears it and re-enables the
\* submit button, and a raised flag is always eventually cleared.
C4_LoadingBracketsCall ==
    /\ [](inflight # {} => loading)
    /\ [][(inflight' # inflight /\ inflight' \subseteq inflight) =>
             (~loading' /\ ~SubmitDisabled')]_vars
    /\ (loading ~> ~loading)

C4_Witness ==
    /\ last.kind = "fail"
    /\ outcome[1] \in {"success", "empty"}
    /\ ~loading
    /\ inflight = {}

\* C5: every submission has exactly one outcome: a local rejection with no
\* call, or exactly one call that resumes the handler exactly once as
\* success, empty success or failure; a settled outcome never changes.
C5_OneOutcome(id) ==
    LET waiting == {h \in inflight : h.id = id}
    IN  CASE outcome[id] = "none" ->
                 id > submissions /\ calls[id] = 0 /\ resumed[id] = 0 /\ waiting = {}
          [] outcome[id] = "rejected" ->
                 id <= submissions /\ calls[id] = 0 /\ resumed[id] = 0 /\ waiting = {}
          [] outcome[id] = "pending" ->
                 id <= submissions /\ calls[id] = 1 /\ resumed[id] = 0
                                   /\ Cardinality(waiting) = 1
          [] outcome[id] \in {"success", "empty", "failure"} ->
                 id <= submissions /\ calls[id] = 1 /\ resumed[id] = 1 /\ waiting = {}
          [] OTHER -> FALSE

C5_ExactlyOneOutcome ==
    /\ [](\A id \in Ids : C5_OneOutcome(id))
    /\ [][\A id \in Ids : outcome[id] \in Terminal => outcome'[id] = outcome[id]]_vars

C5_Witness ==
    /\ submissions = MaxSubmits
    /\ \E a, b, c \in Ids :
          outcome[a] = "rejected" /\ outcome[b] = "failure" /\ outcome[c] \in {"success", "empty"}

\* C6: on a blank input handleSubmit sets errorMessage to the validation
\* message, response to null, raises one error notification with that
\* message, and leaves loading and nodeName as they were.
C6_LocalRejectionEffects ==
    [][(Submitted /\ AllWhiteSpace(nodeName)) =>
          /\ errorMessage' = Some(VALIDATION_MESSAGE)
          /\ response' = Null
          /\ toasts' = <<Toast("error", VALIDATION_MESSAGE, <<>>)>>
          /\ loading' = loading
          /\ nodeName' = nodeName]_vars

C6_Witness ==
    /\ last.kind = "reject"
    /\ \E i \in Ids : i < last.id /\ outcome[i] \in {"success", "empty"}
    /\ response = Null
    /\ errorMessage = Some(VALIDATION_MESSAGE)
    /\ ~loading

\* C7: for an input that is not blank, the name in the request is the
\* input without its leading and trailing white space, interior intact.
C7_RequestNameIsTrimmedInput ==
    [][(Submitted /\ ~AllWhiteSpace(nodeName)) =>
          \E h \in inflight' \ inflight :
              /\ h.id = submissions'
              /\ IsTrimOf(h.request.name, nodeName)]_vars

C7_Witness ==
    /\ last.kind = "dispatch"
    /\ nodeName = <<" ", "e", " ">>
    /\ \E h \in inflight : h.request.name = <<"e">>

\* C8: every terminal outcome both raises a notification of its kind and
\* sets response / errorMessage to that outcome.
C8_NotifyAndDisplay ==
    /\ last.kind = "reject" =>
          /\ Len(toasts) = 1 /\ toasts[1].level = "error"
          /\ errorMessage = Some(toasts[1].text)
          /\ response = Null
    /\ last.kind = "fail" =>
          /\ Len(toasts) = 1 /\ toasts[1].level = "error"
          /\ errorMessage = Some(toasts[1].text)
          /\ response = Null
    /\ last.kind = "resolve" =>
          /\ Len(toasts) >= 1 /\ toasts[1].level = "success"
          /\ response # Null
          /\ errorMessage = Null
          /\ (outcome[last.id] = "empty" <=> response[1].portMapping = Null)

C8_Witness ==
    /\ last.kind = "resolve"
    /\ outcome[last.id] = "empty"
    /\ Len(toasts) = 2
    /\ \E i \in Ids : outcome[i] = "failure"
    /\ \E i \in Ids : outcome[i] = "rejected"

\* C9: after any failed call errorMessage is a displayable message (the
\* fault's description when it has one, else the fallback), so the
\* failure alert is rendered.
C9_FailureAlertRendered ==
    last.kind = "fail" => AlertRendered

\* C10: the message is chosen by fault shape, in order: a ConnectError
\* gives its rawMessage, any other Error its message, anything else the
\* fixed fallback.
C10_MessageByFaultShape ==
    last.kind = "fail" =>
        LET err == last.err[1]
        IN  /\ "ConnectError" \in err.instanceOf =>
                   errorMessage = Some(err.rawMessage)
            /\ ("ConnectError" \notin err.instanceOf /\ "Error" \in err.instanceOf) =>
                   errorMessage = Some(err.message)
            /\ err.instanceOf = {} =>
                   errorMessage = Some(FALLBACK_MESSAGE)

C10_Witness ==
    /\ last.kind = "fail"
    /\ "ConnectError" \in last.err[1].instanceOf
    /\ last.err[1].rawMessage # last.err[1].message
    /\ errorMessage = Some(last.err[1].rawMessage)

\* ------------------------------------------- properties of the display
\* s without its leading and trailing JSON white space
RECURSIVE StripWs(_)
StripWs(s) ==
    IF s = <<>> THEN s
    ELSE IF s[1] \in JsonWhiteSpace THEN StripWs(Tail(s))
    ELSE IF s[Len(s)] \in JsonWhiteSpace THEN StripWs(SubSeq(s, 1, Len(s) - 1))
    ELSE s

\* the JSON grammar (ECMA-404), read off its productions
RECURSIVE IsJsonValue(_)
RECURSIVE IsJsonElements(_)
RECURSIVE IsJsonMembers(_)

IsJsonElement(s) == IsJsonValue(StripWs(s))

IsJsonMember(s) ==
    \E k \in 1 .. Len(s) :
        /\ s[k] = ":"
        /\ LET key == StripWs(SubSeq(s, 1, k - 1))
           IN  Len(key) = 1 /\ key[1] \in StringTokens
        /\ IsJsonElement(SubSeq(s, k + 1, Len(s)))

IsJsonElements(s) ==
    \/ IsJsonElement(s)
    \/ \E k \in 1 .. Len(s) :
          /\ s[k] = ","
          /\ IsJsonElement(SubSeq(s, 1, k - 1))
          /\ IsJsonElements(SubSeq(s, k + 1, Len(s)))

IsJsonMembers(s) ==
    \/ IsJsonMember(s)
    \/ \E k \in 1 .. Len(s) :
          /\ s[k] = ","
          /\ IsJsonMember(SubSeq(s, 1, k - 1))
          /\ IsJsonMembers(SubSeq(s, k + 1, Len(s)))

IsJsonValue(s) ==
    \/ Len(s) = 1 /\ s[1] \in StringTokens \cup NumberTokens \cup {"null"}
    \/ /\ Len(s) >= 2
       /\ s[1] = "[" /\ s[Len(s)] = "]"
       /\ LET inner == SubSeq(s, 2, Len(s) - 1)
          IN  StripWs(inner) = <<>> \/ IsJsonElements(inner)
    \/ /\ Len(s) >= 2
       /\ s[1] = "{" /\ s[Len(s)] = "}"
       /\ LET inner == SubSeq(s, 2, Len(s) - 1)
          IN  StripWs(inner) = <<>> \/ IsJsonMembers(inner)

IsJsonText(s) == IsJsonElement(s)

\* structural equality of parsed values; property order does not count
RECURSIVE DeepEqual(_, _)
DeepEqual(a, b) ==
    /\ a.kind = b.kind
    /\ a.lit = b.lit
    /\ Len(a.items) = Len(b.items)
    /\ IF a.kind = "object"
       THEN \A p \in 1 .. Len(a.keys) :
               \E q \in 1 .. Len(b.keys) :
                   a.keys[p] = b.keys[q] /\ DeepEqual(a.items[p], b.items[q])
       ELSE \A p \in 1 .. Len(a.items) : DeepEqual(a.items[p], b.items[p])

\* the rendered card, its port mapping and its configJson
Rendered == view # Null
ShownMapping == PortMappingOf(response)
ShownConfig == ShownMapping[1].configJson
ShownDetails == view[1].details

\* C11: a successful response without portMapping is stored, shows the
\* "no port mapping" state, raises the informational notice after the
\* success notice, and records no error.
C11_EmptySuccess ==
    (last.kind = "resolve" /\ last.result[1].portMapping = Null) =>
        /\ response = last.result
        /\ ShownDetails.hasConfig = FALSE
        /\ Len(toasts) = 2
        /\ toasts[1].level = "success"
        /\ toasts[2] = Toast("info", NO_PORT_MAPPING_TEXT, <<>>)
        /\ errorMessage = Null

C11_Witness ==
    /\ last.kind = "resolve"
    /\ last.id >= 2
    /\ outcome[last.id] = "empty"
    /\ outcome[1] = "success"
    /\ ShownDetails.hasConfig = FALSE
    /\ Len(toasts) = 2

\* C12: once the latest query has completed, the displayed response is
\* exactly what that query delivered, or null after a failure or a local
\* rejection; nothing of an earlier result remains.
C12_LatestQueryReplaces ==
    inflight = {} =>
        /\ last.kind = "resolve" => response = last.result
        /\ last.kind \in {"fail", "reject", "init"} => response = Null

C12_Witness ==
    /\ inflight = {}
    /\ last.kind = "resolve"
    /\ last.id >= 2
    /\ \E i \in Ids : i < last.id /\ outcome[i] = "success"
    /\ response[1].portMapping = Null

\* C13: the details fall in exactly one of three states, by priority: no
\* portMapping; portMapping with an empty configJson (placeholder, no
\* not-JSON flag); portMapping with a non-empty configJson (re-serialised
\* JSON, or the raw text flagged as not JSON).
C13_ThreeStates ==
    Rendered =>
        /\ ShownMapping = Null => ShownDetails = Details(FALSE, TRUE, <<>>)
        /\ (ShownMapping # Null /\ ShownConfig = <<>>) =>
              ShownDetails = Details(TRUE, TRUE, <<EMPTY_PLACEHOLDER>>)
        /\ (ShownMapping # Null /\ ShownConfig # <<>>) =>
              /\ ShownDetails.hasConfig
              /\ ShownDetails.pretty # <<EMPTY_PLACEHOLDER>>
              /\ ShownDetails.pretty # <<>>
              /\ ShownDetails.isJson => IsJsonText(ShownDetails.pretty)
              /\ ~ShownDetails.isJson => ShownDetails.pretty = ShownConfig

C13_Witness ==
    /\ Rendered
    /\ ShownMapping # Null
    /\ ShownConfig = <<>>
    /\ ShownDetails = Details(TRUE, TRUE, <<EMPTY_PLACEHOLDER>>)

\* C14: a non-empty configJson that is not JSON is displayed as it is,
\* flagged as not JSON; one that is JSON is not flagged.
C14_RawFallback ==
    (Rendered /\ ShownMapping # Null /\ ShownConfig # <<>>) =>
        IF IsJsonText(ShownConfig)
        THEN ShownDetails.isJson
        ELSE ~ShownDetails.isJson /\ ShownDetails.pretty = ShownConfig

C14_Witness ==
    /\ Rendered
    /\ ShownMapping # Null
    /\ ShownConfig = <<"[", "1", ",">>
    /\ ShownDetails = Details(TRUE, FALSE, ShownConfig)

\* C15: for a configJson that is JSON, parsing the displayed text gives a
\* value deep-equal to parsing the configJson.
C15_RoundTrip ==
    (Rendered /\ ShownMapping # Null /\ ShownConfig # <<>> /\ IsJsonText(ShownConfig)) =>
        LET shown == JsonParse(ShownDetails.pretty)
        IN  shown.ok /\ DeepEqual(shown.val, JsonParse(ShownConfig).val)

\* C16: the three known modes get their labels, every other mode value
\* gets "Unknown".
C16_ModeLabels ==
    (Rendered /\ ShownMapping # Null) =>
        LET mode == ShownMapping[1].mode
            label == view[1].modeLabel
        IN  /\ mode = "UNSPECIFIED" => label = Some("Unspecified")
            /\ mode = "SERVER" => label = Some("Server")
            /\ mode = "CLIENT" => label = Some("Client")
            /\ mode \notin {"UNSPECIFIED", "SERVER", "CLIENT"} => label = Some("Unknown")

C16_Witness ==
    /\ Rendered
    /\ ShownMapping # Null
    /\ ShownMapping[1].mode \in UnrecognizedModes
    /\ view[1].modeLabel = Some("Unknown")

\* C17: the transport is bound at startup to the override when the
\* environment sets one and to http://localhost:50051 otherwise; every
\* call goes to that base URL and nothing rebinds it.
C17_OneBinding ==
    /\ [](/\ env = Null => transport.baseUrl = "http://localhost:50051"
          /\ env # Null => transport.baseUrl = env[1]
          /\ \A h \in inflight : h.baseUrl = transport.baseUrl)
    /\ [][transport' = transport /\ env' = env]_vars

C17_Witness ==
    /\ env = Some(OVERRIDE_URL)
    /\ \E h \in inflight : h.id >= 2 /\ h.baseUrl = OVERRIDE_URL

\* C18: errorMessage and response are never both non-null.
C18_AlertOrResult == ~(errorMessage # Null /\ response # Null)

C18_Witness ==
    /\ last.kind = "resolve"
    /\ response # Null
    /\ errorMessage = Null
    /\ \E i \in Ids : i < last.id /\ outcome[i] \in {"failure", "rejected"}

\* C19: loading is true exactly while a getNodeConfig call is outstanding.
C19_LoadingAccurate == loading <=> inflight # {}

C19_Witness ==
    /\ loading
    /\ inflight # {}
    /\ \E i \in Ids : outcome[i] \in {"success", "empty", "failure"}

\* C20: dispatching a query sets loading and clears errorMessage and
\* leaves nodeName, response and the rendered result as they were; while
\* the call is outstanding response changes only in the step that
\* settles it.
C20_DispatchKeepsResult ==
    /\ [][(Submitted /\ ~AllWhiteSpace(nodeName)) =>
             /\ loading'
             /\ errorMessage' = Null
             /\ response' = response
             /\ nodeName' = nodeName
             /\ view' = view]_vars
    /\ [][(inflight # {} /\ response' # response) => inflight' # inflight]_vars

C20_Witness ==
    /\ last.kind = "dispatch"
    /\ inflight # {}
    /\ loading
    /\ response # Null
    /\ ShownDetails.hasConfig

====
